---- MODULE Spec2Model ----
(***************************************************************************)
(* State-machine models of the programs of the repository:                 *)
(*   - the outbound-call orchestrator (Calling Agent/Calling-Agent.py),    *)
(*   - the legal chatbot backend in its two copies (Chatbot.py and         *)
(*     Chatbot/Chatbot.py).                                                *)
(* The programs share no state, so each has its own specification over its *)
(* own variables; the other programs' variables stay at their initial      *)
(* values.                                                                 *)
(***************************************************************************)
EXTENDS Integers, Sequences, FiniteSets, Bags, TLC

VARIABLES
    \* ---- Calling-Agent.py
    sheet,            \* the Google sheet: row number -> column letter -> cell
    pc,               \* position of process_call for each call
    vapi_status,      \* what the voice platform reports for each call
    call_contexts,    \* call_contexts[call_id]
    locks,            \* locks[call_id]: 0 when free, else the handler holding it
    hpc,              \* position of each running handle_conversation_update
    hcall,            \* the call id each running handler works on
    end_pending,      \* transcript webhooks suspended in `await end_call(...)`
    inject_sent,      \* number of inject_message requests issued per call
    ever_appended,    \* every (digit, description) pair appended to ivr_path
    since_inject,     \* assistant fragments received since message_injected was set
    \* ---- /initiate-calls (start_calls)
    records,          \* sheet.get_all_records()
    tasks,            \* background_tasks, in the order they were added
    start_response,   \* the response of POST /initiate-calls
    \* ---- Chatbot.py and Chatbot/Chatbot.py
    variant,          \* which of the two copies of the chatbot is running
    clock,            \* datetime.now(): the day and the second of that day
    chat_titles,      \* chat_titles[section][chat_id]
    query_history,    \* query_history[section]
    streams,          \* response generators of /chat that have not finished
    response,         \* the response to the last request
    served,           \* the /chat requests accepted so far
    \* ---- v.py
    values,           \* the cells of Sheet1!A:D, the header row first
    drive,            \* the videos of the folder the Drive API has yet to return
    vpc,              \* position of main
    sheet_rows,       \* the result of get_sheet_data
    files,            \* the files list_videos_in_folder has collected
    video_files,      \* the result of list_videos_in_folder
    idx,              \* the loop index of main
    processed         \* the sets main has processed, in order

callVars == <<sheet, pc, vapi_status, call_contexts, locks, hpc, hcall,
              end_pending, inject_sent, ever_appended, since_inject>>
startVars == <<records, tasks, start_response>>
chatVars == <<variant, clock, chat_titles, query_history, streams, response,
              served>>
videoVars == <<values, drive, vpc, sheet_rows, files, video_files, idx, processed>>
otherVars == <<startVars, chatVars, videoVars>>
vars == <<callVars, startVars, chatVars, videoVars>>

None == "None"

Min(S) == CHOOSE x \in S : \A y \in S : x <= y

(***************************************************************************)
(* Bounds of the model.                                                    *)
(***************************************************************************)
MaxPath == 2          \* pairs appended to one call's ivr_path
MaxTranscript == 3    \* words of assistant speech received after the injection
MaxRecords == 3       \* sheet records read by /initiate-calls
MaxQueries == 3       \* /chat requests accepted by a chatbot
MaxSec == 1           \* seconds of one day
MaxDay == 30          \* the last day of the clock
MaxRows == 3          \* rows of the sheet after the header
MaxVideos == 3        \* videos in the Drive folder

(***************************************************************************)
(* Calling-Agent.py: values.                                               *)
(***************************************************************************)
Calls == {"call-1", "call-2"}
CallSet1 == {"call-1"}
\* Conversation-update handlers that can be running at the same time.
Handlers == {1, 2}
Row(c) == IF c = "call-1" THEN 2 ELSE 3
Rows == {Row(c) : c \in Calls}

ControlUrls == {"url-a", "url-b"}
Costs == {"0.05", "0.11"}

\* Speech is a sequence of words; the closing phrase of BASE_SCRIPT is two words,
\* so that it can arrive whole or split over two transcript fragments.
Phrase == <<"Looking forward", "to speaking with you">>
Words == {"Looking forward", "to speaking with you", "Hi"}
Fragments == {<<>>} \cup {<<w>> : w \in Words} \cup {Phrase}

\* `needle in haystack` on strings.
Contains(haystack, needle) ==
    \E i \in 0..(Len(haystack) - Len(needle)) :
        \A j \in 1..Len(needle) : haystack[i + j] = needle[j]

\* `=` in the place of `+=`: only the last fragment is kept
AccumulateLastOnly(transcript, fragment) == fragment
\* context['assistant_transcript'] += fragment
Accumulate(transcript, fragment) == transcript \o fragment

\* The default context of call_contexts (a defaultdict); 'twilio_sid' and 'cost'
\* are absent keys until set, read with .get() as None.
NewContext ==
    [ivr_path |-> <<>>, state |-> "initial", control_url |-> None,
     message_injected |-> FALSE, message_delivered |-> FALSE, ending |-> FALSE,
     assistant_transcript |-> <<>>, twilio_sid |-> None, cost |-> None]

\* Storing the controlUrl of every webhook that carries one
StoreUrlAlways(x, url) ==
    IF url # None THEN [x EXCEPT !.control_url = url] ELSE x

\* vapi_webhook: the controlUrl of message.call.monitor is stored once.
StoreUrl(x, url) ==
    IF url # None /\ x.control_url = None THEN [x EXCEPT !.control_url = url] ELSE x

(***************************************************************************)
(* The sheet.  Cells are addressed by column letter when written           *)
(* (update_sheet) and by header name when read (get_all_records).          *)
(***************************************************************************)
Letters == {"C", "F", "H", "I"}
\* The header row of the sheet, for the columns the model keeps.
HEADER == [l \in Letters |->
             CASE l = "C" -> "Status"
               [] l = "F" -> "IVR Option"
               [] l = "H" -> "Call ID"
               [] l = "I" -> "Cost"]

COLUMN_MAPPING ==
    [k \in {"Connection Test", "Contact Number", "Status", "Call Summary",
            "Transcript", "IVR Option", "Call Duration", "Cost"} |->
        CASE k = "Connection Test" -> "A"
          [] k = "Contact Number" -> "B"
          [] k = "Status" -> "C"
          [] k = "Call Summary" -> "D"
          [] k = "Transcript" -> "E"
          [] k = "IVR Option" -> "F"
          [] k = "Call Duration" -> "G"
          [] k = "Cost" -> "I"]

\* update_sheet(row, data): the keys of data that COLUMN_MAPPING knows are written
\* to their column; every other key is dropped.
update_sheet(sh, row, data) ==
    LET written == {k \in DOMAIN data : k \in DOMAIN COLUMN_MAPPING}
        cell(l) == IF \E k \in written : COLUMN_MAPPING[k] = l
                   THEN data[CHOOSE k \in written : COLUMN_MAPPING[k] = l]
                   ELSE sh[row][l]
    IN  [sh EXCEPT ![row] = [l \in Letters |-> cell(l)]]

\* The value get_all_records() gives for `name` in row r.
Cell(sh, r, name) == sh[r][CHOOSE l \in Letters : HEADER[l] = name]

\* update_sheet_by_call_id: the first row whose 'Call ID' is call_id is updated.
update_sheet_by_call_id(sh, call_id, data) ==
    LET found == {r \in Rows : Cell(sh, r, "Call ID") = call_id}
    IN  IF found = {} THEN sh ELSE update_sheet(sh, Min(found), data)

EmptyRow == [l \in Letters |->
               CASE l = "C" -> "not-called"
                 [] l = "F" -> <<>>
                 [] l = "H" -> ""
                 [] l = "I" -> ""]

FailedStatuses == {"failed: queued timeout", "failed: error"}
FinalStatuses == {"called"} \cup FailedStatuses

\* "\n".join(f"{digit} - {desc}" ...) or the placeholder; a text is its lines.
FormatIvr(ivr_path) ==
    IF ivr_path # <<>>
    THEN [i \in 1..Len(ivr_path) |-> <<ivr_path[i][1], " - ", ivr_path[i][2]>>]
    ELSE << <<"No IVR Option Available">> >>

(***************************************************************************)
(* analyze_conversation / determine_ivr_path.                              *)
(***************************************************************************)
Digits == {"1", "2"}
Descs == {"accounts payable", "operator", "sales"}
Scenarios == {"direct_departments", "general_finance", "no_finance", "no_ivr"}

\* ivr_options: a dict in insertion order, as a sequence of (digit, description).
OptionLists ==
    {o \in UNION {[1..n -> Digits \X Descs] : n \in 0..Cardinality(Digits)} :
        \A i, j \in 1..Len(o) : i # j => o[i][1] # o[j][1]}

\* What analyze_conversation can return (its fallback result included).
Analyses == [is_human : BOOLEAN, ivr_detected : BOOLEAN,
             scenario : Scenarios, ivr_options : OptionLists]

\* The analyses that list no menu option, and those that see no human.
AnalysesNoOption == {a \in Analyses : a.ivr_options = <<>>}
AnalysesNoHuman == {a \in Analyses : ~a.is_human}

\* Descriptions whose lower-cased text contains the given words.
HasAccountsPayable == {"accounts payable"}
HasAccountsOrFinance == {"accounts payable"}
HasAccountsReceivable == {}
HasReceptionist == {"operator"}

\* for option, desc in ivr_options.items(): if <match>: return option
FirstOption(options, matching) ==
    LET hits == {i \in 1..Len(options) : options[i][2] \in matching}
    IN  IF hits = {} THEN "" ELSE options[Min(hits)][1]

\* 'message' is no module global, so context is {} and in_submenu reads False.
in_submenu == FALSE

determine_ivr_path(analysis) ==
    IF ~analysis.ivr_detected THEN ""
    ELSE CASE analysis.scenario = "direct_departments" ->
                FirstOption(analysis.ivr_options, HasAccountsPayable)
           [] analysis.scenario = "general_finance" ->
                IF ~in_submenu
                THEN FirstOption(analysis.ivr_options, HasAccountsOrFinance)
                ELSE FirstOption(analysis.ivr_options, HasAccountsReceivable)
           [] analysis.scenario = "no_finance" ->
                FirstOption(analysis.ivr_options, HasReceptionist)
           [] OTHER -> ""

\* analysis['ivr_options'].get(dtmf_sequence, 'Unknown')
OptionDesc(options, digit) ==
    LET hits == {i \in 1..Len(options) : options[i][1] = digit}
    IN  IF hits = {} THEN "Unknown" ELSE options[Min(hits)][2]

(***************************************************************************)
(* The voice platform.                                                     *)
(***************************************************************************)
\* status: what vapi.calls.get reports; sid: phone_call_provider_id is set;
\* answered: the call has been in progress, so the platform has events to send.
NoCall == [status |-> "none", sid |-> FALSE, answered |-> FALSE]
Queued == [status |-> "queued", sid |-> FALSE, answered |-> FALSE]

NextPlatform(v) ==
    CASE v.status = "queued" ->
            {[status |-> "in-progress", sid |-> b, answered |-> TRUE] : b \in BOOLEAN}
            \cup {[status |-> "ended", sid |-> FALSE, answered |-> FALSE]}
      [] v.status = "in-progress" ->
            {[status |-> "in-progress", sid |-> TRUE, answered |-> TRUE],
             [status |-> "ended", sid |-> FALSE, answered |-> TRUE]} \ {v}
      [] OTHER -> {}

\* The call moves on: it is answered, its provider id appears, it ends.
PlatformAdvance(c) ==
    /\ \E v \in NextPlatform(vapi_status[c]) :
          vapi_status' = [vapi_status EXCEPT ![c] = v]
    /\ UNCHANGED <<sheet, pc, call_contexts, locks, hpc, hcall, end_pending,
                   inject_sent, ever_appended, since_inject, otherVars>>

\* The platform sends transcript and conversation-update events of a call that
\* was answered, and the end-of-call event of a call that has ended.
Answered(c) == vapi_status[c].answered
HasEnded(c) == vapi_status[c].status = "ended"

(***************************************************************************)
(* process_call(row_num, number), one action per stretch between awaits.   *)
(***************************************************************************)
\* except Exception: update_sheet(row_num, {'Status': f'failed: {str(e)[:50]}'})
Fail(c) ==
    /\ sheet' = update_sheet(sheet, Row(c), [k \in {"Status"} |-> "failed: error"])
    /\ pc' = [pc EXCEPT ![c] = "done"]

\* vapi.calls.create returned (or failed on every attempt of safe_api_call).
CreateCall(c, ok) ==
    /\ pc[c] = "create"
    /\ IF ok
       THEN /\ vapi_status' = [vapi_status EXCEPT ![c] = Queued]
            /\ sheet' = update_sheet(sheet, Row(c),
                            [k \in {"Status", "Call ID"} |->
                                IF k = "Status" THEN "calling" ELSE c])
            /\ pc' = [pc EXCEPT ![c] = "poll1"]
       ELSE /\ Fail(c)
            /\ UNCHANGED vapi_status
    /\ UNCHANGED <<call_contexts, locks, hpc, hcall, end_pending, inject_sent,
                   ever_appended, since_inject, otherVars>>

\* call_contexts[call.id].update({...}) followed by the second 'calling' write.
InitContext(x) ==
    [x EXCEPT !.ivr_path = <<>>, !.state = "initial",
              !.message_delivered = FALSE, !.ending = FALSE]

CallingData(c) ==
    [k \in {"Status", "Phone Number", "Call ID"} |->
        CASE k = "Status" -> "calling" [] k = "Phone Number" -> "number" [] OTHER -> c]

\* First monitoring loop: vapi.calls.get returned.
Poll1(c, ok) ==
    /\ pc[c] = "poll1"
    /\ IF ~ok
       THEN Fail(c) /\ UNCHANGED call_contexts
       ELSE LET v == vapi_status[c]
                ready == v.status = "in-progress" /\ v.sid
                x == IF ready THEN [call_contexts[c] EXCEPT !.twilio_sid = "sid"]
                     ELSE call_contexts[c]
            IN  IF ready \/ v.status = "ended"
                THEN /\ call_contexts' = [call_contexts EXCEPT ![c] = InitContext(x)]
                     /\ sheet' = update_sheet(sheet, Row(c), CallingData(c))
                     /\ pc' = [pc EXCEPT ![c] = "poll2"]
                ELSE /\ pc' = [pc EXCEPT ![c] = "sleep1"]
                     /\ UNCHANGED <<call_contexts, sheet>>
    /\ UNCHANGED <<vapi_status, locks, hpc, hcall, end_pending, inject_sent,
                   ever_appended, since_inject, otherVars>>

\* safe_sleep(1) returned: the loop condition compares the clock with the timeout.
Wake1(c, timed_out) ==
    /\ pc[c] = "sleep1"
    /\ IF timed_out
       THEN /\ sheet' = update_sheet(sheet, Row(c),
                            [k \in {"Status"} |-> "failed: queued timeout"])
            /\ pc' = [pc EXCEPT ![c] = "done"]
       ELSE /\ pc' = [pc EXCEPT ![c] = "poll1"]
            /\ UNCHANGED sheet
    /\ UNCHANGED <<vapi_status, call_contexts, locks, hpc, hcall, end_pending,
                   inject_sent, ever_appended, since_inject, otherVars>>

\* A loop that tests for a status the platform never reports
EndedNever(v) == FALSE
\* Second monitoring loop: `if status.status == "ended"`
Ended(v) == v.status = "ended"

Poll2(c, ok) ==
    /\ pc[c] = "poll2"
    /\ IF ~ok
       THEN Fail(c)
       ELSE /\ pc' = [pc EXCEPT ![c] = IF Ended(vapi_status[c]) THEN "summarize" ELSE "sleep2"]
            /\ UNCHANGED sheet
    /\ UNCHANGED <<vapi_status, call_contexts, locks, hpc, hcall, end_pending,
                   inject_sent, ever_appended, since_inject, otherVars>>

Wake2(c) ==
    /\ pc[c] = "sleep2"
    /\ pc' = [pc EXCEPT ![c] = "poll2"]
    /\ UNCHANGED <<sheet, vapi_status, call_contexts, locks, hpc, hcall, end_pending,
                   inject_sent, ever_appended, since_inject, otherVars>>

FinalData(c, cost) ==
    [k \in {"Status", "IVR Option", "Cost"} |->
        CASE k = "Status" -> "called"
          [] k = "IVR Option" -> FormatIvr(call_contexts[c].ivr_path)
          [] OTHER -> cost]

\* summarize_transcript returned (or raised); the final write follows without an await.
Summarize(c, ok, cost) ==
    /\ pc[c] = "summarize"
    /\ IF ok
       THEN /\ sheet' = update_sheet(sheet, Row(c), FinalData(c, cost))
            /\ pc' = [pc EXCEPT ![c] = "done"]
       ELSE Fail(c)
    /\ UNCHANGED <<vapi_status, call_contexts, locks, hpc, hcall, end_pending,
                   inject_sent, ever_appended, since_inject, otherVars>>

ProcessCall(c) ==
    \/ \E ok \in BOOLEAN : CreateCall(c, ok)
    \/ \E ok \in BOOLEAN : Poll1(c, ok)
    \/ \E t \in BOOLEAN : Wake1(c, t)
    \/ \E ok \in BOOLEAN : Poll2(c, ok)
    \/ Wake2(c)
    \/ \E ok \in BOOLEAN, cost \in Costs : Summarize(c, ok, cost)

(***************************************************************************)
(* vapi_webhook: transcript events.                                        *)
(***************************************************************************)
\* The event is handled up to `await end_call(control_url)`.  since_inject keeps
\* the words received since the injection, whatever the flags say, until the
\* closing phrase is among them.
WebhookTranscript(c, url, role, fragment) ==
    /\ Answered(c)
    /\ LET x0 == StoreUrl(call_contexts[c], url)
           counted == role = "assistant" /\ x0.message_injected
           open == counted /\ ~x0.message_delivered
           heard == Accumulate(x0.assistant_transcript, fragment)
           delivered == open /\ Contains(heard, Phrase)
           x1 == IF open THEN [x0 EXCEPT !.assistant_transcript = heard] ELSE x0
           x2 == IF delivered THEN [x1 EXCEPT !.message_delivered = TRUE] ELSE x1
       IN  /\ (counted /\ ~Contains(since_inject[c], Phrase)) =>
                  Len(since_inject[c]) + Len(fragment) <= MaxTranscript
           /\ call_contexts' = [call_contexts EXCEPT ![c] = x2]
           /\ since_inject' = [since_inject EXCEPT
                                 ![c] = IF counted /\ ~Contains(@, Phrase)
                                        THEN @ \o fragment ELSE @]
           /\ end_pending' = [end_pending EXCEPT
                                 ![c] = IF delivered /\ x2.control_url # None
                                        THEN @ + 1 ELSE @]
    /\ UNCHANGED <<sheet, pc, vapi_status, locks, hpc, hcall, inject_sent,
                   ever_appended, otherVars>>

\* end_call returned: context['ending'] = True
EndCallDone(c) ==
    /\ end_pending[c] > 0
    /\ end_pending' = [end_pending EXCEPT ![c] = @ - 1]
    /\ call_contexts' = [call_contexts EXCEPT ![c].ending = TRUE]
    /\ UNCHANGED <<sheet, pc, vapi_status, locks, hpc, hcall, inject_sent,
                   ever_appended, since_inject, otherVars>>

(***************************************************************************)
(* vapi_webhook: end-of-call events.                                       *)
(***************************************************************************)
WebhookEndOfCall(c, url, cost) ==
    /\ HasEnded(c)
    /\ call_contexts' = [call_contexts EXCEPT
                            ![c] = [StoreUrl(@, url) EXCEPT !.cost = cost]]
    /\ sheet' = update_sheet_by_call_id(sheet, c, [k \in {"Cost"} |-> cost])
    /\ UNCHANGED <<pc, vapi_status, locks, hpc, hcall, end_pending, inject_sent,
                   ever_appended, since_inject, otherVars>>

(***************************************************************************)
(* vapi_webhook: conversation-update events, handle_conversation_update.   *)
(***************************************************************************)
\* The handler without its lock
LockFreeAlways(c) == TRUE
\* async with locks[call_id]: the lock can be taken when nobody holds it.
LockFree(c) == locks[c] = 0

\* An exit that leaves the lock taken
ReleaseKeepsLock(h, c) ==
    /\ hpc' = [hpc EXCEPT ![h] = "idle"]
    /\ hcall' = [hcall EXCEPT ![h] = ""]
    /\ UNCHANGED locks
\* Leaving the `async with` block, by return or by exception.
Release(h, c) ==
    /\ hpc' = [hpc EXCEPT ![h] = "idle"]
    /\ hcall' = [hcall EXCEPT ![h] = ""]
    /\ locks' = [locks EXCEPT ![c] = 0]

Hold(h, c, at) ==
    /\ hpc' = [hpc EXCEPT ![h] = at]
    /\ hcall' = [hcall EXCEPT ![h] = c]
    /\ locks' = [locks EXCEPT ![c] = h]

\* The lock is taken and the flags are read; x is the context of the call.
\* malformed: the conversation has an entry without 'role' or 'content'.
Enter(h, c, x, malformed) ==
    /\ call_contexts' = [call_contexts EXCEPT ![c] = x]
    /\ IF x.ending \/ x.message_injected
       THEN Release(h, c)
       ELSE IF x.message_delivered
       THEN IF x.control_url # None THEN Hold(h, c, "end") ELSE Release(h, c)
       ELSE IF malformed
       THEN Release(h, c)
       ELSE Hold(h, c, "analyze")

\* A conversation-update webhook arrives.
WebhookConversation(h, c, url, malformed) ==
    /\ Answered(c)
    /\ hpc[h] = "idle"
    /\ \A g \in Handlers : hpc[g] = "idle" => h <= g
    /\ IF LockFree(c)
       THEN Enter(h, c, StoreUrl(call_contexts[c], url), malformed)
       ELSE /\ call_contexts' = [call_contexts EXCEPT ![c] = StoreUrl(@, url)]
            /\ hpc' = [hpc EXCEPT ![h] = "wait"]
            /\ hcall' = [hcall EXCEPT ![h] = c]
            /\ UNCHANGED locks
    /\ UNCHANGED <<sheet, pc, vapi_status, end_pending, inject_sent,
                   ever_appended, since_inject, otherVars>>

\* A handler that waited for the lock gets it.
HandlerEnter(h, malformed) ==
    /\ hpc[h] = "wait"
    /\ LockFree(hcall[h])
    /\ Enter(h, hcall[h], call_contexts[hcall[h]], malformed)
    /\ UNCHANGED <<sheet, pc, vapi_status, end_pending, inject_sent,
                   ever_appended, since_inject, otherVars>>

\* analyze_conversation returned: the handler runs up to its next await
\* (inject_message, send_dtmf_twilio) or to its return.
HandlerAnalysed(h, analysis) ==
    /\ hpc[h] = "analyze"
    /\ LET c == hcall[h]
           x == call_contexts[c]
           human == analysis.is_human /\ ~x.message_injected
           dtmf_sequence == determine_ivr_path(analysis)
           navigate == ~human /\ analysis.ivr_detected /\ dtmf_sequence # ""
           fallback == ~human /\ analysis.ivr_detected /\ dtmf_sequence = ""
           pair == <<dtmf_sequence, OptionDesc(analysis.ivr_options, dtmf_sequence)>>
           inject == /\ human \/ (fallback /\ ~x.message_injected)
                     /\ x.control_url # None
           x1 == IF human THEN [x EXCEPT !.state = "human_detected"] ELSE x
           x2 == IF navigate THEN [x1 EXCEPT !.ivr_path = Append(@, pair)] ELSE x1
       IN  /\ navigate => Len(ever_appended[c]) < MaxPath
           /\ call_contexts' = [call_contexts EXCEPT ![c] = x2]
           /\ ever_appended' = [ever_appended EXCEPT
                                  ![c] = IF navigate THEN Append(@, pair) ELSE @]
           /\ inject_sent' = [inject_sent EXCEPT ![c] = IF inject THEN @ + 1 ELSE @]
           /\ IF inject THEN Hold(h, c, "inject")
              ELSE IF navigate /\ x.twilio_sid # None THEN Hold(h, c, "dtmf")
              ELSE Release(h, c)
    /\ UNCHANGED <<sheet, pc, vapi_status, end_pending, since_inject, otherVars>>

\* The awaited request returned: the handler finishes and releases the lock.
HandlerFinish(h) ==
    /\ hpc[h] \in {"inject", "dtmf", "end"}
    /\ LET c == hcall[h]
       IN  /\ call_contexts' =
                [call_contexts EXCEPT
                    ![c] = CASE hpc[h] = "inject" ->
                                  [@ EXCEPT !.message_injected = TRUE,
                                            !.assistant_transcript = <<>>]
                             [] hpc[h] = "end" -> [@ EXCEPT !.ending = TRUE]
                             [] OTHER -> @]
           /\ since_inject' = [since_inject EXCEPT
                                 ![c] = IF hpc[h] = "inject" THEN <<>> ELSE @]
           /\ Release(h, c)
    /\ UNCHANGED <<sheet, pc, vapi_status, end_pending, inject_sent,
                   ever_appended, otherVars>>

(***************************************************************************)
(* The chatbots: Chatbot.py and the judgment-enabled Chatbot/Chatbot.py.   *)
(* Both keep chat_titles and query_history per section in memory.  A Flask *)
(* handler runs to its return in one step; the response generator of       *)
(* Chatbot/Chatbot.py runs after the handler has returned.                 *)
(***************************************************************************)
Plain == "Chatbot.py"
Judgments == "Chatbot/Chatbot.py"
Variants == {Plain, Judgments}

Sections == {"main", "for_against", "bare_acts"}
\* The section of a request: two of the three sections, none, or no section of
\* the program
SectionInputs == {"main", "for_against", None, "other"}
SectionPaths == {"main", "for_against", "other"}
Queries == {"q1"}
QueryInputs == Queries \cup {None, ""}
Titles == {"Title A"}
Days == {0, 1, 7, MaxDay}

\* strftime("%Y%m%d%H%M%S"): the day and the second, nothing finer
get_chat_id == <<clock.day, clock.sec>>
NoChatId == <<>>
\* The chat_id of a request: none, the id of a chat of some section, or an id
\* the server has never given out
UnknownChatId == <<0 - 1, 0>>
ChatIdInputs ==
    {NoChatId, UnknownChatId} \cup UNION {DOMAIN chat_titles[s] : s \in Sections}
isoformat(t) == <<"T", t.day, t.sec>>
fromisoformat(str) == [day |-> str[2], sec |-> str[3]]
date(t) == t.day

Put(dict, key, value) ==
    [k \in DOMAIN dict \cup {key} |-> IF k = key THEN value ELSE dict[k]]
EmptyDict == [k \in {} |-> None]

EmptyGroups == [today |-> <<>>, yesterday |-> <<>>, seven_days |-> <<>>,
                thirty_days |-> <<>>]
NoAnswer == [code |-> 0, kind |-> "none", groups |-> EmptyGroups]
Answer(code, kind) == [code |-> code, kind |-> kind, groups |-> EmptyGroups]
BadRequest == Answer(400, "No query provided")
ServerError == Answer(500, "error")
Streamed == Answer(200, "stream")

\* generate_chat_title: the model's answer, or "New Chat" when the call fails
TitleOutcomes == Titles \cup {"New Chat"}

NewChat == [queries |-> <<>>, title |-> None, timestamp |-> isoformat(clock)]
HistoryEntry(chat_id, query) ==
    [chat_id |-> chat_id, query |-> query, timestamp |-> isoformat(clock)]

\* `if user_query is None`
NoQueryMissingOnly(query) == query = None
\* `if not user_query`
NoQuery(query) == query \in {None, ""}

\* lines 118-132 of Chatbot.py, 379-394 of Chatbot/Chatbot.py: the entry of
\* the session after the request, given the title the generator would return
Created(section, chat_id) ==
    IF chat_id = NoChatId
    THEN Put(chat_titles[section], get_chat_id, NewChat)
    ELSE chat_titles[section]
Stored(dict, id, query, title) ==
    LET appended == [dict EXCEPT ![id].queries = Append(@, query)]
    IN IF Len(appended[id].queries) = 2
       THEN [appended EXCEPT ![id].title = title]
       ELSE appended

\* POST /chat of Chatbot.py
chat(query, section_in, chat_id, title) ==
    LET section == IF section_in = None THEN "main" ELSE section_in
        id == IF chat_id = NoChatId THEN get_chat_id ELSE chat_id
    IN
    /\ variant = Plain
    /\ IF NoQuery(query)
       THEN /\ response' = BadRequest
            /\ UNCHANGED <<chat_titles, query_history, served>>
       ELSE IF \/ section \notin Sections
               \/ id \notin DOMAIN Created(section, chat_id)
       THEN /\ response' = ServerError
            /\ UNCHANGED <<chat_titles, query_history, served>>
       ELSE /\ served < MaxQueries
            /\ served' = served + 1
            /\ chat_titles' = [chat_titles EXCEPT ![section] =
                     Stored(Created(section, chat_id), id, query, title)]
            /\ query_history' = [query_history EXCEPT ![section] =
                     Append(@, HistoryEntry(id, query))]
            /\ response' = Streamed
    /\ UNCHANGED <<variant, clock, streams, callVars, startVars,
                   videoVars>>

\* POST /chat of Chatbot/Chatbot.py
chat2(query, section_in, chat_id, title) ==
    LET section == IF section_in = None THEN "main" ELSE section_in
        id == IF chat_id = NoChatId /\ section # "for_against"
              THEN get_chat_id ELSE chat_id
        created == IF section = "for_against" THEN chat_titles[section]
                   ELSE Created(section, chat_id)
    IN
    /\ variant = Judgments
    /\ IF NoQuery(query)
       THEN /\ response' = BadRequest
            /\ UNCHANGED <<chat_titles, streams, served>>
       ELSE IF \/ section \notin Sections
               \/ id \notin DOMAIN created
       THEN /\ response' = ServerError
            /\ UNCHANGED <<chat_titles, streams, served>>
       ELSE /\ served < MaxQueries
            /\ served' = served + 1
            /\ chat_titles' = [chat_titles EXCEPT ![section] =
                     Stored(created, id, query, title)]
            /\ streams' = streams (+) SetToBag({[section |-> section,
                                  chat_id |-> id, query |-> query]})
            /\ response' = Streamed
    /\ UNCHANGED <<variant, clock, query_history, callVars, startVars,
                   videoVars>>

\* stream_deepseek_response has sent its last chunk, or has raised before it
StreamDone(st, completed) ==
    /\ variant = Judgments
    /\ BagIn(st, streams)
    /\ streams' = streams (-) SetToBag({st})
    /\ query_history' =
         IF completed /\ st.section # "for_against"
         THEN [query_history EXCEPT ![st.section] =
                  Append(@, HistoryEntry(st.chat_id, st.query))]
         ELSE query_history
    /\ UNCHANGED <<variant, clock, chat_titles, response, served, callVars,
                   startVars, videoVars>>

\* POST /history/<section>/clear, the same in both programs
clear_history(section) ==
    /\ IF section \in Sections
       THEN /\ query_history' = [query_history EXCEPT ![section] = <<>>]
            /\ chat_titles' = [chat_titles EXCEPT ![section] = EmptyDict]
            /\ response' = Answer(200, "cleared")
       ELSE /\ response' = Answer(400, "Invalid section")
            /\ UNCHANGED <<chat_titles, query_history>>
    /\ UNCHANGED <<variant, clock, streams, served, callVars, startVars,
                   videoVars>>

\* The loop of get_history over query_history[section]: the chats in the order
\* of their first entry, each with its entries in the order of the list.
RECURSIVE chat_groups(_, _)
chat_groups(section, history) ==
    IF history = <<>> THEN <<>>
    ELSE LET before == chat_groups(section, SubSeq(history, 1, Len(history) - 1))
             entry == history[Len(history)]
             known == {i \in 1..Len(before) : before[i].chat_id = entry.chat_id}
             title == chat_titles[section][entry.chat_id].title
         IN IF known # {}
            THEN [before EXCEPT ![Min(known)].messages = Append(@, entry)]
            ELSE Append(before,
                   [chat_id |-> entry.chat_id,
                    title |-> IF title = None THEN "New Chat" ELSE title,
                    timestamp |-> fromisoformat(entry.timestamp),
                    messages |-> <<entry>>])

\* The period of a chat whose first entry has the given date
Period(chat_date, today) ==
    IF chat_date = today THEN "today"
    ELSE IF chat_date = today - 1 THEN "yesterday"
    ELSE IF chat_date > today - 7 THEN "seven_days"
    ELSE IF chat_date > today - 30 THEN "thirty_days"
    ELSE "none"

ChatsOf(chats, period) ==
    LET chosen == SelectSeq(chats,
                    LAMBDA ch : Period(date(ch.timestamp), date(clock)) = period)
    IN [i \in 1..Len(chosen) |->
          [title |-> chosen[i].title, timestamp |-> chosen[i].timestamp,
           messages |-> chosen[i].messages]]

grouped_history(section) ==
    LET chats == chat_groups(section, query_history[section])
    IN [today |-> ChatsOf(chats, "today"),
        yesterday |-> ChatsOf(chats, "yesterday"),
        seven_days |-> ChatsOf(chats, "seven_days"),
        thirty_days |-> ChatsOf(chats, "thirty_days")]

\* An entry of the history whose chat has no title record: the lookup raises
Untitled(section) ==
    \E i \in 1..Len(query_history[section]) :
        query_history[section][i].chat_id \notin DOMAIN chat_titles[section]

\* GET /history/<section> of Chatbot.py
get_history(section) ==
    /\ variant = Plain
    /\ response' =
         IF section \notin Sections THEN Answer(200, "empty list")
         ELSE IF Untitled(section) THEN ServerError
         ELSE [code |-> 200, kind |-> "history",
               groups |-> grouped_history(section)]
    /\ UNCHANGED <<variant, clock, chat_titles, query_history, streams,
                   served, callVars, startVars,
                   videoVars>>

\* GET /history/<section> of Chatbot/Chatbot.py
get_history2(section) ==
    /\ variant = Judgments
    /\ response' =
         IF section = "for_against" THEN Answer(200, "history")
         ELSE IF section \notin Sections THEN ServerError
         ELSE IF Untitled(section) THEN ServerError
         ELSE [code |-> 200, kind |-> "history",
               groups |-> grouped_history(section)]
    /\ UNCHANGED <<variant, clock, chat_titles, query_history, streams,
                   served, callVars, startVars,
                   videoVars>>

\* Time passes: to the next second, or to a later day
Tick ==
    /\ clock.sec < MaxSec
    /\ clock' = [clock EXCEPT !.sec = @ + 1]
    /\ UNCHANGED <<variant, chat_titles, query_history, streams, response,
                   served, callVars, startVars,
                   videoVars>>

NextDay(day) ==
    /\ day > clock.day
    /\ clock' = [day |-> day, sec |-> 0]
    /\ UNCHANGED <<variant, chat_titles, query_history, streams, response,
                   served, callVars, startVars,
                   videoVars>>

InitChatbot(program) ==
    /\ variant = program
    /\ clock = [day |-> 0, sec |-> 0]
    /\ chat_titles = [s \in Sections |-> EmptyDict]
    /\ query_history = [s \in Sections |-> <<>>]
    /\ streams = EmptyBag
    /\ response = NoAnswer
    /\ served = 0

(***************************************************************************)
(* v.py: the video batch job.  main reads the sheet, lists the folder and  *)
(* processes one set per loop iteration.                                   *)
(***************************************************************************)
\* Cells are strings, modelled as sequences of characters.
Space == " "
RECURSIVE lstrip(_)
lstrip(cell) ==
    IF cell # <<>> /\ Head(cell) = Space THEN lstrip(Tail(cell)) ELSE cell
RECURSIVE rstrip(_)
rstrip(cell) ==
    IF cell # <<>> /\ cell[Len(cell)] = Space
    THEN rstrip(SubSeq(cell, 1, Len(cell) - 1)) ELSE cell
\* str.strip()
strip(cell) == rstrip(lstrip(cell))

\* Rows as the Sheets API returns them for the range A:D: at most four cells,
\* trailing empty cells left out.
HeaderRow == << <<"S">>, <<"T">>, <<"T">>, <<"T">> >>
SheetRows ==
    { << <<"1">>, <<"a">>, <<"b">>, <<"c">> >>,
      << <<Space, "2", Space>>, <<"a">>, <<Space, "b">>, <<"c">> >>,
      << <<"3">>, <<"a">>, <<"b">> >>,
      << <<"4">>, <<Space>>, <<"b">>, <<"c">> >> }
RowLists == UNION {[1..n -> SheetRows] : n \in 0..MaxRows}
\* The sheet: empty, or the header and the rows after it
SheetValues == {<<>>} \cup {<<HeaderRow>> \o rows : rows \in RowLists}

\* The videos of the folder, in the order the Drive API lists them; a name may
\* occur twice, an id does not.
Names == {"a.mp4", "b.mp4"}
\* The order of the names as strings
NameRank(name) == IF name = "a.mp4" THEN 1 ELSE 2
Folders ==
    UNION {{[i \in 1..n |-> [id |-> i, name |-> names[i]]] :
               names \in [1..n -> Names]} : n \in 0..MaxVideos}

\* The test of get_sheet_data on one row
ValidRow(row) ==
    /\ Len(row) >= 4
    /\ \A j \in 1..4 : strip(row[j]) # <<>>

\* get_sheet_data, lines 340-351
RECURSIVE filtered_rows(_)
filtered_rows(data_rows) ==
    IF data_rows = <<>> THEN <<>>
    ELSE IF ValidRow(Head(data_rows))
         THEN <<Head(data_rows)>> \o filtered_rows(Tail(data_rows))
         ELSE filtered_rows(Tail(data_rows))
get_sheet_data == IF values = <<>> THEN <<>> ELSE filtered_rows(Tail(values))

\* The list as the Drive API returned it
unsorted(list) == list
\* sorted(files, key=lambda f: f['name']): stable, ascending by name
RECURSIVE sorted(_)
sorted(list) ==
    IF list = <<>> THEN <<>>
    ELSE LET least == Min({NameRank(list[i].name) : i \in 1..Len(list)})
             first == Min({i \in 1..Len(list) : NameRank(list[i].name) = least})
         IN <<list[first]>> \o
            sorted(SubSeq(list, 1, first - 1) \o SubSeq(list, first + 1, Len(list)))

videoRest == <<callVars, startVars, chatVars>>

\* main, lines 386-390: the sheet is read; a failed request ends the script
ReadSheet(ok) ==
    /\ vpc = "sheet"
    /\ IF ~ok THEN vpc' = "crashed" /\ UNCHANGED sheet_rows
       ELSE /\ sheet_rows' = get_sheet_data
            /\ vpc' = IF sheet_rows' = <<>> THEN "done" ELSE "list"
    /\ UNCHANGED <<values, drive, files, video_files, idx, processed, videoRest>>

\* list_videos_in_folder, lines 357-367: one page of the listing
ListPage(n, ok) ==
    /\ vpc = "list"
    /\ n \in 0..Len(drive)
    /\ n = 0 => drive = <<>>
    /\ IF ~ok
       THEN /\ vpc' = "crashed"
            /\ UNCHANGED <<drive, files, video_files>>
       ELSE /\ files' = files \o SubSeq(drive, 1, n)
            /\ drive' = SubSeq(drive, n + 1, Len(drive))
            /\ IF drive' # <<>>
               THEN UNCHANGED <<vpc, video_files>>
               ELSE /\ video_files' = sorted(files')
                    /\ vpc' = IF video_files' = <<>> THEN "done" ELSE "loop"
    /\ UNCHANGED <<values, sheet_rows, idx, processed, videoRest>>

\* min(len(sheet_rows), len(video_files))
total_to_process ==
    IF Len(sheet_rows) <= Len(video_files) THEN Len(sheet_rows) ELSE Len(video_files)

\* main, lines 399-420: one iteration of the loop; the download or the
\* processing may raise, which the iteration catches
ProcessSet(ok) ==
    /\ vpc = "loop"
    /\ idx < total_to_process
    /\ LET row == sheet_rows[idx + 1]
           video_info == video_files[idx + 1]
       IN processed' = Append(processed,
              [set_id |-> strip(row[1]),
               texts |-> <<strip(row[2]), strip(row[3]), strip(row[4])>>,
               video |-> video_info,
               completed |-> ok])
    /\ idx' = idx + 1
    /\ UNCHANGED <<values, drive, vpc, sheet_rows, files, video_files, videoRest>>

\* main, line 422: the loop has run out
LoopEnd ==
    /\ vpc = "loop"
    /\ idx >= total_to_process
    /\ vpc' = "done"
    /\ UNCHANGED <<values, drive, sheet_rows, files, video_files, idx, processed,
                   videoRest>>

InitVideo(position) ==
    /\ vpc = position
    /\ sheet_rows = <<>>
    /\ files = <<>>
    /\ video_files = <<>>
    /\ idx = 0
    /\ processed = <<>>

InitVideoIdle ==
    /\ values = <<>>
    /\ drive = <<>>
    /\ InitVideo("idle")

(***************************************************************************)
(* The call orchestrator with one call in progress.                        *)
(***************************************************************************)
\* No request to /initiate-calls has been answered.
NoResponse == [status |-> "none", calls |-> 0]

InitStart ==
    /\ records = <<>>
    /\ tasks = <<>>
    /\ start_response = NoResponse

\* process_call has been started for the calls of `started`.
InitCalls(started) ==
    /\ sheet = [r \in Rows |-> EmptyRow]
    /\ pc = [c \in Calls |-> IF c \in started THEN "create" ELSE "idle"]
    /\ vapi_status = [c \in Calls |-> NoCall]
    /\ call_contexts = [c \in Calls |-> NewContext]
    /\ locks = [c \in Calls |-> 0]
    /\ hpc = [h \in Handlers |-> "idle"]
    /\ hcall = [h \in Handlers |-> ""]
    /\ end_pending = [c \in Calls |-> 0]
    /\ inject_sent = [c \in Calls |-> 0]
    /\ ever_appended = [c \in Calls |-> <<>>]
    /\ since_inject = [c \in Calls |-> <<>>]

InitAgent(started) ==
    InitCalls(started) /\ InitStart /\ InitChatbot(Plain) /\ InitVideoIdle

TranscriptEvents(c) ==
    \/ \E url \in ControlUrls \cup {None}, role \in {"assistant", "user"},
          fragment \in Fragments : WebhookTranscript(c, url, role, fragment)
    \/ EndCallDone(c)

ConversationEvents(calls, urls, analyses) ==
    \/ \E c \in calls, h \in Handlers, url \in urls,
          malformed \in BOOLEAN : WebhookConversation(h, c, url, malformed)
    \/ \E h \in Handlers, malformed \in BOOLEAN : HandlerEnter(h, malformed)
    \/ \E h \in Handlers, analysis \in analyses : HandlerAnalysed(h, analysis)
    \/ \E h \in Handlers : HandlerFinish(h)

\* One call; transcript and conversation-update events; the analysis lists no
\* menu option, so the handler injects or does nothing.
NextInject ==
    \/ \E c \in CallSet1 : ProcessCall(c)
    \/ \E c \in CallSet1 : PlatformAdvance(c)
    \/ \E c \in CallSet1 : TranscriptEvents(c)
    \/ ConversationEvents(CallSet1, ControlUrls \cup {None}, AnalysesNoOption)

SpecInject == InitAgent(CallSet1) /\ [][NextInject]_vars

\* One call; conversation updates over every menu of the model, none of them
\* carrying a control URL; no transcript or end-of-call events.
NextIvr ==
    \/ \E c \in CallSet1 : ProcessCall(c)
    \/ \E c \in CallSet1 : PlatformAdvance(c)
    \/ ConversationEvents(CallSet1, {None}, AnalysesNoHuman)

SpecIvr == InitAgent(CallSet1) /\ [][NextIvr]_vars

\* Two calls, each with its process_call running; end-of-call events only.
NextCost ==
    \/ \E c \in Calls : ProcessCall(c)
    \/ \E c \in Calls : PlatformAdvance(c)
    \/ \E c \in Calls, url \in ControlUrls \cup {None}, cost \in Costs :
          WebhookEndOfCall(c, url, cost)

SpecCost == InitAgent(Calls) /\ [][NextCost]_vars

\* The event loop runs every process_call that can take a step, and the platform
\* moves every call on until it has ended.
SpecCostFair ==
    /\ SpecCost
    /\ \A c \in Calls : WF_vars(ProcessCall(c)) /\ WF_vars(PlatformAdvance(c))

(***************************************************************************)
(* POST /initiate-calls: start_calls.                                      *)
(***************************************************************************)
SheetStatuses == {"not-called", "calling", "called"}
PhoneNumbers == {"+15550001", "+15550002"}
SheetRecords == UNION {[1..n -> [Status : SheetStatuses, PhoneNumber : PhoneNumbers]] :
                          n \in 0..MaxRecords}

\* Python's enumerate(records): the 0-based indices, in order.
Enumerate(recs) == [k \in 1..Len(recs) |-> k - 1]
\* records[i] for a 0-based i.
At(recs, i) == recs[i + 1]

\* The same list built as process_calls builds it: positions in the filtered list.
to_call_by_position(recs) ==
    LET uncalled == SelectSeq(recs, LAMBDA r : r.Status = "not-called")
    IN  [j \in 1..Len(uncalled) |-> (j - 1) + 2]

\* to_call = [i+2 for i, row in enumerate(records) if row['Status'] == 'not-called']
to_call(recs) ==
    LET kept == SelectSeq(Enumerate(recs), LAMBDA i : At(recs, i).Status = "not-called")
    IN  [j \in 1..Len(kept) |-> kept[j] + 2]

\* The handler: one process_call task per entry of to_call; an exception while
\* reading the sheet answers 500 and schedules nothing.
start_calls(read_ok) ==
    /\ start_response = NoResponse
    /\ IF read_ok
       THEN LET rows == to_call(records)
            IN  /\ tasks' = [j \in 1..Len(rows) |->
                               [row_num |-> rows[j],
                                number |-> At(records, rows[j] - 2).PhoneNumber]]
                /\ start_response' = [status |-> "started", calls |-> Len(rows)]
       ELSE /\ tasks' = <<>>
            /\ start_response' = [status |-> "500", calls |-> 0]
    /\ UNCHANGED <<records, callVars, chatVars, videoVars>>

InitStartCalls ==
    /\ InitCalls({})
    /\ records \in SheetRecords
    /\ tasks = <<>>
    /\ start_response = NoResponse
    /\ InitChatbot(Plain)
    /\ InitVideoIdle

NextStart == \E read_ok \in BOOLEAN : start_calls(read_ok)

SpecStart == InitStartCalls /\ [][NextStart]_vars

(***************************************************************************)
(* Either chatbot, with requests in any order.                             *)
(***************************************************************************)
InitChat ==
    /\ InitCalls({})
    /\ InitStart
    /\ \E program \in Variants : InitChatbot(program)
    /\ InitVideoIdle

\* The /chat requests of the given queries, sections and generated titles, the
\* end of a response stream, and the passing of a second.
ChatEvents(queries, sections, titles) ==
    \/ \E query \in queries, section \in sections, chat_id \in ChatIdInputs,
          title \in titles : chat(query, section, chat_id, title)
    \/ \E query \in queries, section \in sections, chat_id \in ChatIdInputs,
          title \in titles : chat2(query, section, chat_id, title)
    \/ \E st \in BagToSet(streams), completed \in BOOLEAN :
          StreamDone(st, completed)
    \/ Tick

\* The requests to read and to clear the history of the given sections.
HistoryEvents(sections) ==
    \/ \E section \in sections : clear_history(section)
    \/ \E section \in sections : get_history(section)
    \/ \E section \in sections : get_history2(section)

\* The requests of one section, with and without a query.
QuerySections == {"main", None}
NextQuery ==
    \/ ChatEvents(QueryInputs, QuerySections, {"New Chat"})
    \/ \E section \in {"main"} : clear_history(section)

SpecQuery == InitChat /\ [][NextQuery]_vars

\* All the requests within one day.
NextChat ==
    \/ ChatEvents(Queries, SectionInputs, TitleOutcomes)
    \/ HistoryEvents(SectionPaths)

SpecChat == InitChat /\ [][NextChat]_vars

\* The requests of one section over the days.
NextHistory ==
    \/ ChatEvents(Queries, {"main"}, Titles)
    \/ HistoryEvents({"main", "other"})
    \/ \E day \in Days : NextDay(day)

SpecHistory == InitChat /\ [][NextHistory]_vars

(***************************************************************************)
(* Two calls with conversation-update events for both.                     *)
(***************************************************************************)
\* The analyses of a human, of a menu with the option to press, and of neither
LockAnalyses ==
    {a \in Analyses :
        /\ a.scenario \in {"direct_departments", "no_ivr"}
        /\ a.ivr_options \in {<<>>, << <<"1", "accounts payable">> >>}}

\* Both calls are in progress and process_call has entered its second
\* monitoring loop for each of them.
InitMonitoring ==
    /\ sheet = update_sheet(
                 update_sheet([r \in Rows |-> EmptyRow], Row("call-1"),
                              CallingData("call-1")),
                 Row("call-2"), CallingData("call-2"))
    /\ pc = [c \in Calls |-> "poll2"]
    /\ vapi_status = [c \in Calls |->
                        [status |-> "in-progress", sid |-> TRUE, answered |-> TRUE]]
    /\ call_contexts = [c \in Calls |->
                          InitContext([NewContext EXCEPT !.twilio_sid = "sid"])]
    /\ locks = [c \in Calls |-> 0]
    /\ hpc = [h \in Handlers |-> "idle"]
    /\ hcall = [h \in Handlers |-> ""]
    /\ end_pending = [c \in Calls |-> 0]
    /\ inject_sent = [c \in Calls |-> 0]
    /\ ever_appended = [c \in Calls |-> <<>>]
    /\ since_inject = [c \in Calls |-> <<>>]
    /\ InitStart
    /\ InitChatbot(Plain)
    /\ InitVideoIdle

NextLock == ConversationEvents(Calls, {"url-a"}, LockAnalyses)

SpecLock == InitMonitoring /\ [][NextLock]_vars

\* Every awaited request of a handler returns, and a handler waiting for a lock
\* that is released again and again gets it (asyncio.Lock wakes its waiters
\* first come, first served).
SpecLockFair ==
    /\ SpecLock
    /\ \A h \in Handlers :
          /\ WF_vars(\E analysis \in LockAnalyses : HandlerAnalysed(h, analysis))
          /\ WF_vars(HandlerFinish(h))
          /\ SF_vars(\E malformed \in BOOLEAN : HandlerEnter(h, malformed))

(***************************************************************************)
(* The video batch job run once on any sheet and any folder.               *)
(***************************************************************************)
InitBatch ==
    /\ InitCalls({})
    /\ InitStart
    /\ InitChatbot(Plain)
    /\ values \in SheetValues
    /\ drive \in Folders
    /\ InitVideo("sheet")

NextBatch ==
    \/ \E ok \in BOOLEAN : ReadSheet(ok)
    \/ \E n \in 0..MaxVideos, ok \in BOOLEAN : ListPage(n, ok)
    \/ \E ok \in BOOLEAN : ProcessSet(ok)
    \/ LoopEnd

SpecBatch == InitBatch /\ [][NextBatch]_vars

(***************************************************************************)
(* Properties of the call orchestrator.                                    *)
(***************************************************************************)
Context(c) == call_contexts[c]
Status(sh, c) == Cell(sh, Row(c), "Status")

\* C1: for any call id and any interleaving of conversation-update and
\* transcript webhooks, the request that injects BASE_SCRIPT is issued at most
\* once over the whole life of the call.
C1_InjectedAtMostOnce == \A c \in Calls : inject_sent[c] <= 1

\* The case of C1: one handler is injecting while another update of the same
\* call waits for the lock.
C1_Witness ==
    \E c \in Calls, h, g \in Handlers :
        /\ inject_sent[c] = 1
        /\ hpc[h] = "inject" /\ hcall[h] = c
        /\ hpc[g] = "wait" /\ hcall[g] = c

\* C2: once the message is injected, the assistant fragment that makes the
\* words received since the injection contain the closing phrase sets
\* message_delivered and, with a control URL known, sends an end-call request,
\* whose return sets ending; a fragment received before the injection never
\* sets message_delivered.
C2_Step(c) ==
    LET x == call_contexts[c]
        y == call_contexts'[c]
    IN  /\ ( /\ x.message_injected
             /\ since_inject'[c] # since_inject[c]
             /\ Contains(since_inject'[c], Phrase) )
            => /\ y.message_delivered
               /\ y.control_url # None => end_pending'[c] = end_pending[c] + 1
        /\ ~x.message_injected => ~y.message_delivered
        /\ end_pending'[c] < end_pending[c] => y.ending
        /\ (y.message_delivered /\ y.control_url # None)
            => (y.ending \/ end_pending'[c] > 0)

C2_DeliveredOnClosingPhrase == [][\A c \in Calls : C2_Step(c)]_vars

\* The case of C2: the closing phrase arrived split over fragments, the message
\* counts as delivered and the call as ending.
C2_Witness ==
    \E c \in Calls :
        /\ Context(c).message_delivered
        /\ Context(c).ending
        /\ since_inject[c] = <<"Hi">> \o Phrase

C5_IvrOptionListsEveryPair ==
    [][\A c \in Calls :
         (pc[c] = "summarize" /\ pc'[c] = "done" /\ Status(sheet', c) = "called")
         => Cell(sheet', Row(c), "IVR Option") = FormatIvr(ever_appended[c])]_vars

\* C6: when an end-of-call webhook arrives for a call that process_call
\* started, the cost it reports is written to the Cost column of the call's
\* row, found by the call id that process_call recorded there.
C6_CostWrittenToCallRow ==
    [][\A c \in Calls :
         call_contexts'[c].cost # Context(c).cost
             => /\ Cell(sheet', Row(c), "Call ID") = c
                /\ Cell(sheet', Row(c), "Cost") = call_contexts'[c].cost]_vars

\* C3: /initiate-calls schedules exactly one task for every 'not-called'
\* record and none for any other; the task carries the record's own row number
\* (index + 2) and phone number; 'calls' is the number of tasks.
C3_OneTaskPerUncalledRecord ==
    start_response.status = "started" =>
        /\ \A i \in 0..(Len(records) - 1) :
              LET mine == {j \in 1..Len(tasks) : tasks[j].row_num = i + 2}
              IN  IF At(records, i).Status = "not-called"
                  THEN /\ Cardinality(mine) = 1
                       /\ \A j \in mine : tasks[j].number = At(records, i).PhoneNumber
                  ELSE mine = {}
        /\ \A j \in 1..Len(tasks) : tasks[j].row_num - 2 \in 0..(Len(records) - 1)
        /\ start_response.calls = Len(tasks)

\* The case of C3: a called record stands before a not-called one, and a task
\* was scheduled.
C3_Witness ==
    /\ start_response.status = "started"
    /\ Len(records) >= 2
    /\ records[1].Status = "called"
    /\ records[2].Status = "not-called"
    /\ Len(tasks) >= 1

(***************************************************************************)
(* Properties of the chatbots.                                             *)
(***************************************************************************)
\* C7: a POST /chat whose query is missing or empty is answered 400 with the
\* error 'No query provided'; it leaves chat_titles and query_history of every
\* section unchanged and starts no response stream.
C7_EmptyQueryRejected ==
    [][\A query \in {None, ""}, section \in QuerySections,
          chat_id \in ChatIdInputs :
         (chat(query, section, chat_id, "New Chat")
             \/ chat2(query, section, chat_id, "New Chat"))
         => /\ response'.code = 400
            /\ response'.kind = "No query provided"
            /\ UNCHANGED <<chat_titles, query_history, streams>>]_vars

\* The case of C7: a request without a query was refused while a chat with a
\* stored query existed.
C7_Witness ==
    /\ response = BadRequest
    /\ \E s \in Sections : \E id \in DOMAIN chat_titles[s] :
          Len(chat_titles[s][id].queries) >= 1

\* C8: the title of a chat is None exactly while the chat has fewer than two
\* stored queries, and once it has been generated no later request changes it.
C8_TitleSetOnceAtSecondQuery ==
    [][\A s \in Sections :
         /\ \A id \in DOMAIN chat_titles'[s] :
               (chat_titles'[s][id].title = None)
                   <=> (Len(chat_titles'[s][id].queries) < 2)
         /\ \A id \in DOMAIN chat_titles[s] \cap DOMAIN chat_titles'[s] :
               chat_titles[s][id].title # None
                   => chat_titles'[s][id].title = chat_titles[s][id].title]_vars

\* C9: in Chatbot/Chatbot.py a POST /chat in section 'for_against' with a
\* query and no chat_id is answered with the streamed response, and changes
\* neither chat_titles nor query_history.
C9_ForAgainstStreamsWithoutStorage ==
    [][\A query \in Queries, title \in TitleOutcomes :
         chat2(query, "for_against", NoChatId, title)
         => /\ response' = Streamed
            /\ UNCHANGED <<chat_titles, query_history>>]_vars

\* The entries of one chat in a history, in the order of the list
EntriesOf(history, id) == SelectSeq(history, LAMBDA e : e.chat_id = id)

\* The group C10 names for a chat whose first entry is `age` days old
GroupOfAge(age) ==
    IF age = 0 THEN "today"
    ELSE IF age = 1 THEN "yesterday"
    ELSE IF age \in 2..6 THEN "seven_days"
    ELSE IF age \in 7..29 THEN "thirty_days"
    ELSE "none"

\* C10: GET /history/<section> places every chat of the section's history in
\* the group of the age of its first entry and in no other group (in none when
\* it is 30 or more days old), with all its entries in insertion order.
C10_HistoryGroupedByFirstEntry ==
    [][\A section \in Sections :
         (get_history(section) \/ get_history2(section))
         => LET history == query_history[section]
                ids == {history[i].chat_id : i \in 1..Len(history)}
                age(id) == date(clock)
                             - date(fromisoformat(EntriesOf(history, id)[1].timestamp))
                places(id, g) ==
                    {i \in 1..Len(response'.groups[g]) :
                        response'.groups[g][i].messages[1].chat_id = id}
            IN \A id \in ids : \A g \in DOMAIN EmptyGroups :
                 IF g = GroupOfAge(age(id))
                 THEN /\ Cardinality(places(id, g)) = 1
                      /\ \A i \in places(id, g) :
                            response'.groups[g][i].messages = EntriesOf(history, id)
                 ELSE places(id, g) = {}]_vars

(***************************************************************************)
(* Properties of the video batch job.                                      *)
(***************************************************************************)
\* The rows after the header with at least 4 cells, none of the first 4 blank
ValidRowNumbers ==
    {k \in 2..Len(values) :
        /\ Len(values[k]) >= 4
        /\ \A j \in 1..4 : \E p \in 1..Len(values[k][j]) : values[k][j][p] # Space}

\* The videos of the folder: those listed so far and those still to be listed
Folder == files \o drive

\* The number of sets the job is to process
SetsToProcess ==
    IF Cardinality(ValidRowNumbers) <= Len(Folder)
    THEN Cardinality(ValidRowNumbers) ELSE Len(Folder)

\* C11: the batch job processes exactly min(valid rows, videos) sets; the i-th
\* set pairs the i-th valid row of the sheet with the i-th video of the folder
\* in ascending name order; with no valid row or no video it processes nothing.
C11_BatchPairsRowsWithVideos ==
    /\ vpc = "done" => Len(processed) = SetsToProcess
    /\ Len(processed) <= SetsToProcess
    /\ \A i \in 1..Len(processed) :
          LET k == CHOOSE k \in ValidRowNumbers :
                       Cardinality({x \in ValidRowNumbers : x <= k}) = i
              video == processed[i].video
              below == {n \in 1..Len(Folder) :
                          NameRank(Folder[n].name) < NameRank(video.name)}
              upto == {n \in 1..Len(Folder) :
                          NameRank(Folder[n].name) <= NameRank(video.name)}
          IN /\ processed[i].set_id = strip(values[k][1])
             /\ processed[i].texts =
                   <<strip(values[k][2]), strip(values[k][3]), strip(values[k][4])>>
             /\ \E n \in 1..Len(Folder) : Folder[n] = video
             /\ Cardinality(below) < i
             /\ i <= Cardinality(upto)
    /\ \A i, j \in 1..Len(processed) :
          processed[i].video = processed[j].video => i = j

\* The case of C11: the job has finished two sets, on a sheet whose first row
\* is invalid and a folder listed out of name order with one video too many.
C11_Witness ==
    /\ vpc = "done"
    /\ Len(processed) = 2
    /\ 2 \notin ValidRowNumbers
    /\ Len(Folder) = 3
    /\ Folder[1].name = "b.mp4"
    /\ Folder[2].name = "a.mp4"

(***************************************************************************)
(* Properties of the locks and of the flags of a call.                     *)
(***************************************************************************)
\* The handler is between reading the flags of its call and its return
Inside(h) == hpc[h] \in {"analyze", "inject", "dtmf", "end"}
InsideFor(c) == {h \in Handlers : Inside(h) /\ hcall[h] = c}

\* C12: at most one handle_conversation_update of a call id is between reading
\* the flags and finishing its step; the lock of a call is taken exactly while
\* a handler of that call is there, so every exit releases it; a handler waits
\* only for a handler of its own call; and a waiting handler gets the lock.
C12_OneHandlerPerCall ==
    /\ [][\A c \in Calls :
            /\ Cardinality(InsideFor(c))' <= 1
            /\ (locks'[c] = 0) <=> (InsideFor(c)' = {})
            /\ locks'[c] # 0 => locks'[c] \in InsideFor(c)'
            /\ \A h \in Handlers :
                  (hpc[h] = "idle" /\ hpc'[h] = "wait" /\ hcall'[h] = c)
                      => InsideFor(c) # {}]_vars
    /\ \A h \in Handlers : (hpc[h] = "wait") ~> (hpc[h] # "wait")

\* The case of C12: a handler of call-1 waits while another is inside for
\* call-1, after a handler of call-2 has injected its message.
C12_Witness ==
    /\ hpc[2] = "wait" /\ hcall[2] = "call-1"
    /\ Inside(1) /\ hcall[1] = "call-1"
    /\ call_contexts["call-2"].message_injected

\* The flags of a context agree with its control URL
FlagsOrdered(x) ==
    /\ x.message_delivered => x.message_injected
    /\ x.message_injected => x.control_url # None

\* C13: in every state of a call's context message_delivered implies
\* message_injected and message_injected implies a stored control URL, and a
\* stored control URL is never replaced by another one.
C13_FlagsFollowControlUrl ==
    /\ \A c \in Calls : FlagsOrdered(Context(c))
    /\ [][\A c \in Calls :
            /\ FlagsOrdered(Context(c)')
            /\ Context(c).control_url # None
                  => Context(c)'.control_url = Context(c).control_url]_vars

\* The case of C13: the message of a call was injected through the URL of its
\* first webhook and heard to its end, and the context was initialised by
\* process_call.
C13_Witness ==
    /\ Context("call-1").control_url = "url-b"
    /\ Context("call-1").message_injected
    /\ Context("call-1").message_delivered
    /\ pc["call-1"] = "poll2"

====
